---- MODULE Spec2Model ----
(***************************************************************************)
(* Model of draftfast/optimizer.py: class Optimizer.                       *)
(*                                                                         *)
(* An Optimizer is constructed over a pool of player records, a rule set,  *)
(* settings, lineup constraints and an exposure directive (__init__), and  *)
(* solve() compiles the constraint families into one mixed integer         *)
(* program and asks the solver for an optimal 0/1 assignment.  The caller  *)
(* keeps the player records and may build a later Optimizer on them.       *)
(*                                                                         *)
(* A solver constraint is the record                                       *)
(*   [family, hasLb, lb, hasUb, ub, coef]                                  *)
(* standing for  lb <= SUM coef[v] * x[v] <= ub  (a bound that is absent   *)
(* is not enforced).  Solver variables are numbered: 1..Len(players) are   *)
(* self.variables, the following ones are the team indicators that         *)
(* _set_min_teams creates.                                                 *)
(***************************************************************************)
EXTENDS Integers, Sequences, FiniteSets, TLC

VARIABLES
    players,            \* the caller's player records (a sequence); shared by successive Optimizers
    rule_set,           \* the RuleSet passed to __init__
    settings,           \* the OptimizerSettings passed to __init__
    lineup_constraints, \* self.lineup_constraints of the current Optimizer
    exposure,           \* self.locked_for_exposure / self.banned_for_exposure
    pc,                 \* "idle" | "constructed" | "failed" | "solved" | "raised"
    variables,          \* len(self.variables): solver variables created by __init__
    constraints,        \* the constraints held by self.solver, in creation order
    status,             \* solver status of the last Solve(): "NONE" | "OPTIMAL" | "INFEASIBLE"
    solution,           \* value of every solver variable after Solve()
    result,             \* what solve() returned
    exc                 \* the exception that ended __init__ or solve(): [type, name]

vars == <<players, rule_set, settings, lineup_constraints, exposure, pc, variables,
          constraints, status, solution, result, exc>>

----------------------------------------------------------------------------
(* Bounds of the model *)

\* largest pool (some scenarios add one or two records to it)
MaxPlayers == 2
\* largest player cost
MaxCost == 2
\* largest roster_size
MaxRoster == 2
\* largest bound of a position limit
MaxLimit == 1
\* largest uniques setting
MaxUniques == 2
\* largest bound of the salary range
MaxSalary == 3

----------------------------------------------------------------------------
(* Helpers *)

Max(a, b) == IF a >= b THEN a ELSE b

Idx == 1..Len(players)

RECURSIVE Dot(_, _, _)
\* sum of f[v] * x[v] for v in 1..n
Dot(f, x, n) == IF n = 0 THEN 0 ELSE f[n] * x[n] + Dot(f, x, n - 1)

NoExc == [type |-> "", name |-> ""]

showdown == rule_set.game_type = "showdown"

\* self.teams = set([p.team for p in self.players])
teams == {players[i].team : i \in Idx}

\* the teams for which _set_min_teams creates an indicator variable (`if team:`)
IndicatorTeams == {t \in teams : t # ""}

FirstIdx(t) == CHOOSE i \in Idx : players[i].team = t /\ \A j \in 1..(i - 1) : players[j].team # t

\* number of the indicator variable of team t
TeamVar(t) == Len(players) + Cardinality({u \in IndicatorTeams : FirstIdx(u) <= FirstIdx(t)})

\* all solver variables once solve() has built the model
NumVars == Len(players) + Cardinality(IndicatorTeams)

ZeroCoef == [v \in 1..NumVars |-> 0]

\* coefficient 1 on the variables of the players in S
Ones(S) == [v \in 1..NumVars |-> IF v \in S THEN 1 ELSE 0]

\* solver.Constraint(lb, ub)
Constraint(family, lb, ub) ==
    [family |-> family, hasLb |-> TRUE, lb |-> lb, hasUb |-> TRUE, ub |-> ub, coef |-> ZeroCoef]

\* solver.Add(expr >= lb)
AtLeast(family, lb, coef) ==
    [family |-> family, hasLb |-> TRUE, lb |-> lb, hasUb |-> FALSE, ub |-> 0, coef |-> coef]

\* solver.Add(expr <= ub)
AtMost(family, ub, coef) ==
    [family |-> family, hasLb |-> FALSE, lb |-> 0, hasUb |-> TRUE, ub |-> ub, coef |-> coef]

\* constraint.SetCoefficient(self.variables[i], c) on the k-th constraint of cons
SetCoefficient(cons, k, i, c) == [cons EXCEPT ![k].coef[i] = c]

\* con after SetCoefficient(self.variables[i], c[i]) for every record i in S
WithCoefs(con, S, c) == [con EXCEPT !.coef = [v \in 1..NumVars |-> IF v \in S THEN c[v] ELSE @[v]]]

\* coefficient 1 for every record
Unit == [i \in Idx |-> 1]

----------------------------------------------------------------------------
(* Collaborators that are not in optimizer.py *)

\* LineupConstraints.is_locked(name) / is_banned(name)
is_locked(lc, name) == name \in lc.locked
is_banned(lc, name) == name \in lc.banned

\* Player.is_opposing_team_in_match_up(team)
is_opposing_team_in_match_up(p, team) == p.opp = team

----------------------------------------------------------------------------
(* __init__ *)

\* `if exposure_dct:` keeps the two lists of a directive, and empty lists of none
ExposureOf(exposure_dct) ==
    IF exposure_dct.present
    THEN [locked |-> exposure_dct.locked, banned |-> exposure_dct.banned]
    ELSE [locked |-> {}, banned |-> {}]

_is_locked(lc, ex, p) == is_locked(lc, p.name) \/ p.name \in ex.locked \/ p.lock

_is_banned(lc, ex, p) == is_banned(lc, p.name) \/ p.name \in ex.banned \/ p.ban

\* the body of the loop of __init__ on one record: the flags it leaves on the record
Resolve(lc, ex, p) ==
    [p EXCEPT !.lock = IF _is_locked(lc, ex, p) THEN TRUE ELSE @,
              !.ban = IF _is_banned(lc, ex, p) THEN TRUE ELSE @]

\* Conflict as it would be if the flags were read before the two assignments
ConflictOfFlags(lc, ex, p) == p.lock /\ p.ban

\* `if player.lock and player.ban: raise`, read after the two assignments
Conflict(lc, ex, p) == Resolve(lc, ex, p).lock /\ Resolve(lc, ex, p).ban

\* the records at which the loop would raise; it stops at the first
ConflictIdx(lc, ex) == {i \in Idx : Conflict(lc, ex, players[i])}

FirstConflict(lc, ex) == CHOOSE i \in ConflictIdx(lc, ex) : \A j \in ConflictIdx(lc, ex) : i <= j

\* the records the loop has gone through when __init__ ends
Visited(lc, ex) == IF ConflictIdx(lc, ex) = {} THEN Len(players) ELSE FirstConflict(lc, ex)

\* the lookup tables filled by the loop (a later record of a key overwrites an earlier one)
KnownNames == {players[i].name : i \in Idx}
KnownIds == {players[i].solver_id : i \in Idx}
name_to_idx_map(name) ==
    CHOOSE i \in Idx : players[i].name = name /\ \A j \in Idx : players[j].name = name => j <= i
player_to_idx_map(sid) ==
    CHOOSE i \in Idx : players[i].solver_id = sid /\ \A j \in Idx : players[j].solver_id = sid => j <= i

\* Optimizer(players, rule_set, settings, lc, exposure_dct)
Construct(lc, exposure_dct) ==
    LET ex == ExposureOf(exposure_dct)
        k == Visited(lc, ex)
        raised == ConflictIdx(lc, ex) # {}
    IN /\ lineup_constraints' = lc
       /\ exposure' = ex
       /\ players' = [i \in Idx |-> IF i <= k THEN Resolve(lc, ex, players[i]) ELSE players[i]]
       /\ variables' = k
       /\ constraints' = <<>>
       /\ status' = "NONE"
       /\ solution' = <<>>
       /\ result' = FALSE
       /\ pc' = IF raised THEN "failed" ELSE "constructed"
       /\ exc' = IF raised
                 THEN [type |-> "PlayerBanAndLockException", name |-> players[k].name]
                 ELSE NoExc
       /\ UNCHANGED <<rule_set, settings>>

----------------------------------------------------------------------------
(* The constraint families of solve().  Each operator takes the solver's   *)
(* constraints so far and returns them with the family's constraints added *)

RECURSIVE PlayerConstraintsFrom(_, _, _)
\* the loop of _set_player_constraints from record i on; multi is multi_constraints,
\* holding for a name the number of its constraint
PlayerConstraintsFrom(i, b, multi) ==
    IF i > Len(players) \/ b.err # "" THEN b
    ELSE LET p == players[i]
             lb == IF p.lock THEN 1 ELSE 0
             ub == IF p.ban THEN 0 ELSE 1
             fresh == Append(b.cons, Constraint("player", lb, ub))
         IN IF lb > ub THEN [b EXCEPT !.err = "InvalidBoundsException"]
            ELSE IF p.multi_position \/ (showdown /\ p.captain)
            THEN IF p.name \in DOMAIN multi
                 THEN PlayerConstraintsFrom(
                          i + 1, [b EXCEPT !.cons = SetCoefficient(@, multi[p.name], i, 1)], multi)
                 ELSE PlayerConstraintsFrom(
                          i + 1, [b EXCEPT !.cons = SetCoefficient(fresh, Len(fresh), i, 1)],
                          multi @@ (p.name :> Len(fresh)))
            ELSE PlayerConstraintsFrom(
                     i + 1, [b EXCEPT !.cons = SetCoefficient(fresh, Len(fresh), i, 1)], multi)

_set_player_constraints(b) == PlayerConstraintsFrom(1, b, <<>>)

RECURSIVE GroupCoefficients(_, _, _)
\* the inner loop of _set_player_group_constraints on the last constraint of b.cons
GroupCoefficients(names, j, b) ==
    IF j > Len(names) \/ b.err # "" THEN b
    ELSE IF names[j] \notin KnownNames THEN [b EXCEPT !.err = "KeyError"]
    ELSE GroupCoefficients(
             names, j + 1,
             [b EXCEPT !.cons = SetCoefficient(@, Len(@), name_to_idx_map(names[j]), 1)])

RECURSIVE GroupConstraintsFrom(_, _)
GroupConstraintsFrom(g, b) ==
    IF g > Len(lineup_constraints.groups) \/ b.err # "" THEN b
    ELSE LET gc == lineup_constraints.groups[g]
             \* `if group_constraint.exact:`
             useExact == gc.hasExact /\ gc.exact # 0
             lb == IF useExact THEN gc.exact ELSE gc.lb
             ub == IF useExact THEN gc.exact ELSE gc.ub
         IN GroupConstraintsFrom(
                g + 1,
                GroupCoefficients(
                    gc.players, 1, [b EXCEPT !.cons = Append(@, Constraint("group", lb, ub))]))

_set_player_group_constraints(b) == GroupConstraintsFrom(1, b)

\* the coefficients of the objective
Objective == [i \in Idx |-> players[i].proj]

\* _set_salary_range as it would be with the cap alone: Constraint(0, salary_max)
SalaryCapOnly(cons) ==
    Append(cons, WithCoefs(Constraint("salary", 0, rule_set.salary_max), Idx,
                           [i \in Idx |-> players[i].cost]))

_set_salary_range(cons) ==
    Append(cons, WithCoefs(Constraint("salary", rule_set.salary_min, rule_set.salary_max),
                           Idx, [i \in Idx |-> players[i].cost]))

_set_roster_size(cons) ==
    Append(cons, WithCoefs(Constraint("roster_size", rule_set.roster_size, rule_set.roster_size),
                           1..variables, Unit))

RECURSIVE PositionsMaxOnlyFrom(_, _)
\* the loop of _set_positions as it would be with Constraint(0, max_limit)
PositionsMaxOnlyFrom(k, cons) ==
    IF k > Len(rule_set.position_limits) THEN cons
    ELSE LET lim == rule_set.position_limits[k]
         IN PositionsMaxOnlyFrom(
                k + 1,
                Append(cons, WithCoefs(Constraint("position", 0, lim[3]),
                                       {i \in Idx : lim[1] = players[i].pos}, Unit)))

RECURSIVE PositionsFrom(_, _)
PositionsFrom(k, cons) ==
    IF k > Len(rule_set.position_limits) THEN cons
    ELSE LET lim == rule_set.position_limits[k]
         IN PositionsFrom(
                k + 1,
                Append(cons, WithCoefs(Constraint("position", lim[2], lim[3]),
                                       {i \in Idx : lim[1] = players[i].pos}, Unit)))

_set_positions(cons) == PositionsFrom(1, cons)

RECURSIVE GeneralPositionsFrom(_, _)
GeneralPositionsFrom(k, cons) ==
    IF k > Len(rule_set.general_position_limits) THEN cons
    ELSE LET lim == rule_set.general_position_limits[k]
         IN GeneralPositionsFrom(
                k + 1,
                Append(cons, WithCoefs(Constraint("general_position", lim[2], lim[3]),
                                       {i \in Idx : lim[1] = players[i].nba_general_position},
                                       Unit)))

_set_general_positions(cons) == GeneralPositionsFrom(1, cons)

RECURSIVE StackFrom(_, _)
StackFrom(k, cons) ==
    IF k > Len(settings.stacks) THEN cons
    ELSE LET stack == settings.stacks[k]
         IN StackFrom(
                k + 1,
                Append(cons, WithCoefs(Constraint("stack", stack.count, stack.count),
                                       {i \in Idx : stack.team = players[i].team}, Unit)))

_set_stack(cons) == StackFrom(1, cons)

\* the teams in the order of their first record
RECURSIVE TeamsFrom(_)
TeamsFrom(i) ==
    IF i > Len(players) THEN <<>>
    ELSE IF FirstIdx(players[i].team) = i THEN <<players[i].team>> \o TeamsFrom(i + 1)
    ELSE TeamsFrom(i + 1)

TeamSeq == TeamsFrom(1)

RECURSIVE ComboFrom(_, _)
ComboFrom(k, cons) ==
    IF k > Len(TeamSeq) THEN cons
    ELSE LET team == TeamSeq[k]
             combo_skill_type == IF settings.combo_allow_te THEN {"WR", "TE"} ELSE {"WR"}
             skill == {i \in Idx : players[i].team = team /\ players[i].pos \in combo_skill_type}
             qbs == {i \in Idx : players[i].team = team /\ players[i].pos = "QB"}
             coef == [v \in 1..NumVars |-> IF v \in skill THEN 1 ELSE IF v \in qbs THEN -1 ELSE 0]
         IN ComboFrom(k + 1, Append(cons, AtLeast("combo", 0, coef)))

_set_combo(cons) == IF settings.force_combo THEN ComboFrom(1, cons) ELSE cons

RECURSIVE NoDuplicateWithoutUniquesFrom(_, _)
\* the loop of _set_no_duplicate_lineups as it would be without the uniques setting
NoDuplicateWithoutUniquesFrom(k, cons) ==
    IF k > Len(settings.existing_rosters) THEN cons
    ELSE LET roster == settings.existing_rosters[k]
         IN NoDuplicateWithoutUniquesFrom(
                k + 1,
                Append(cons, WithCoefs(Constraint("no_duplicate", 0, rule_set.roster_size - 1),
                                       {player_to_idx_map(sid) : sid \in roster \cap KnownIds},
                                       Unit)))

RECURSIVE NoDuplicateFrom(_, _)
NoDuplicateFrom(k, cons) ==
    IF k > Len(settings.existing_rosters) THEN cons
    ELSE LET roster == settings.existing_rosters[k]
             \* `if self.settings.uniques:`
             max_repeats == IF settings.uniques # 0
                            THEN Max(rule_set.roster_size - settings.uniques, 1)
                            ELSE rule_set.roster_size - 1
         IN NoDuplicateFrom(
                k + 1,
                Append(cons, WithCoefs(Constraint("no_duplicate", 0, max_repeats),
                                       {player_to_idx_map(sid) : sid \in roster \cap KnownIds},
                                       Unit)))

_set_no_duplicate_lineups(cons) == NoDuplicateFrom(1, cons)

RECURSIVE IndicatorsFrom(_, _)
IndicatorsFrom(k, cons) ==
    IF k > Len(TeamSeq) THEN cons
    ELSE LET team == TeamSeq[k]
             on_team == {i \in Idx : players[i].team = team}
             coef == [v \in 1..NumVars |->
                        IF v = TeamVar(team) THEN 1 ELSE IF v \in on_team THEN -1 ELSE 0]
         IN IF team # ""
            THEN IndicatorsFrom(k + 1, Append(cons, AtMost("team_indicator", 0, coef)))
            ELSE IndicatorsFrom(k + 1, cons)

_set_min_teams(cons) ==
    LET linked == IndicatorsFrom(1, cons)
    IN IF Cardinality(IndicatorTeams) > 0
       THEN Append(linked, AtLeast("min_teams", settings.min_teams,
                                   Ones({TeamVar(t) : t \in IndicatorTeams})))
       ELSE linked

\* self.solver.Constraint(1): the solver is called with one bound.  Its API takes
\* (lb, ub), so the call is either rejected or read as the floor alone
CaptainCalls == {"rejected", "floor"}

\* what becomes of the call of _set_single_captain, which solve() makes in showdown only
CallsMade == IF showdown THEN CaptainCalls ELSE {"none"}

_set_single_captain(cons) ==
    Append(cons, AtLeast("captain", 1, Ones({i \in Idx : players[i].captain})))

\* the place of the pair <<t, p, d>> in the order of the three nested loops
PairKey(e) == (e[1] * (Len(players) + 1) + e[2]) * (Len(players) + 1) + e[3]

RECURSIVE SeqByKey(_)
\* the pairs of S as a sequence, in loop order
SeqByKey(S) ==
    IF S = {} THEN <<>>
    ELSE LET m == CHOOSE e \in S : \A f \in S : PairKey(e) <= PairKey(f)
         IN <<m>> \o SeqByKey(S \ {m})

\* `offensive_pos and defensive_pos and use_classic or use_showdown`
NoOppDefenseActive ==
    LET use_classic == settings.no_offense_against_defense /\ ~showdown
        use_showdown == settings.no_defense_against_captain /\ showdown
    IN (rule_set.offensive_positions # {} /\ rule_set.defensive_positions # {} /\ use_classic)
       \/ use_showdown

\* the pairs <<t, p, d>> of the three nested loops, t the number of the team in TeamSeq
NoOppDefensePairs ==
    LET use_showdown == settings.no_defense_against_captain /\ showdown
        offensive_against(team) ==
            {i \in Idx : /\ players[i].pos \in rule_set.offensive_positions
                         /\ is_opposing_team_in_match_up(players[i], team)
                         /\ use_showdown
                         /\ players[i].captain}
        defensive(team) ==
            {i \in Idx : players[i].team = team /\ players[i].pos \in rule_set.defensive_positions}
    IN {<<t, p, d>> \in (1..Len(TeamSeq)) \X Idx \X Idx :
            p \in offensive_against(TeamSeq[t]) /\ d \in defensive(TeamSeq[t])}

_set_no_opp_defense(cons) ==
    LET pairs == SeqByKey(NoOppDefensePairs)
        \* p <= 1 - d
        con(e) == AtMost("no_opp_defense", 1,
                         [v \in 1..NumVars |->
                            (IF v = e[2] THEN 1 ELSE 0) + (IF v = e[3] THEN 1 ELSE 0)])
    IN IF NoOppDefenseActive
       THEN cons \o [k \in 1..Len(pairs) |-> con(pairs[k])]
       ELSE cons

\* the model solve() hands to the solver: [cons, err], err the exception that ended
\* the construction (then cons are the constraints created before it)
Model(captainCall) ==
    LET b1 == _set_player_constraints([cons |-> <<>>, err |-> ""])
        b2 == _set_player_group_constraints(b1)
        c3 == _set_min_teams(
                  _set_no_duplicate_lineups(
                      _set_combo(
                          _set_stack(
                              _set_general_positions(
                                  _set_positions(
                                      _set_roster_size(
                                          _set_salary_range(b2.cons))))))))
    IN IF b2.err # "" THEN b2
       ELSE IF showdown /\ captainCall = "rejected" THEN [cons |-> c3, err |-> "TypeError"]
       ELSE [cons |-> _set_no_opp_defense(IF showdown THEN _set_single_captain(c3) ELSE c3),
             err |-> ""]

----------------------------------------------------------------------------
(* The solver *)

\* every variable is IntVar(0, 1)
Assignments == [1..NumVars -> {0, 1}]

Value(coef, x) == Dot(coef, x, Len(x))

Satisfies(x, con) ==
    /\ con.hasLb => con.lb <= Value(con.coef, x)
    /\ con.hasUb => Value(con.coef, x) <= con.ub

Feasible(cons) == {x \in Assignments : \A k \in 1..Len(cons) : Satisfies(x, cons[k])}

Points(x) == Dot(Objective, x, Len(players))

\* Solve() with a maximized objective: the assignments of greatest objective
Optimal(cons) ==
    LET F == Feasible(cons)
        reached == {Points(x) : x \in F}
        best == CHOOSE m \in reached : \A k \in reached : k <= m
    IN IF F = {} THEN {} ELSE {x \in F : Points(x) = best}

\* solve()
Solve(captainCall) ==
    LET m == Model(captainCall)
        best == Optimal(m.cons)
    IN /\ pc = "constructed"
       /\ captainCall \in CallsMade
       /\ constraints' = m.cons
       /\ IF m.err # ""
          THEN /\ pc' = "raised"
               /\ exc' = [type |-> m.err, name |-> ""]
               /\ UNCHANGED <<status, solution, result>>
          ELSE /\ pc' = "solved"
               /\ exc' = NoExc
               /\ IF best = {}
                  THEN /\ status' = "INFEASIBLE"
                       /\ solution' = <<>>
                       /\ result' = FALSE
                  ELSE /\ status' = "OPTIMAL"
                       /\ solution' \in best
                       /\ result' = TRUE
       /\ UNCHANGED <<players, rule_set, settings, lineup_constraints, exposure, variables>>

----------------------------------------------------------------------------
(* Inputs *)

Names == {"A", "B"}

\* the names of a pool whose records all differ in name
AllNames == <<"A", "B", "C", "D", "E">>

Player(name, team, opp, pos, gpos, cost, proj, lock, ban, multi, captain) ==
    [name |-> name, solver_id |-> 0, team |-> team, opp |-> opp, pos |-> pos,
     nba_general_position |-> gpos, cost |-> cost, proj |-> proj, lock |-> lock, ban |-> ban,
     multi_position |-> multi, captain |-> captain]

\* the pools of 1..n records drawn from recs; the caller gives every record its own solver_id
Pools(recs, n) ==
    UNION {{[i \in 1..m |-> [f[i] EXCEPT !.solver_id = i]] : f \in [1..m -> recs]} : m \in 1..n}

\* Pools(recs, n) with the i-th record named AllNames[i]
NamedPools(recs, n) ==
    {[i \in 1..Len(ps) |-> [ps[i] EXCEPT !.name = AllNames[i]]] : ps \in Pools(recs, n)}

RuleSet(game_type, roster_size, salary_min, salary_max) ==
    [game_type |-> game_type, roster_size |-> roster_size, salary_min |-> salary_min,
     salary_max |-> salary_max, position_limits |-> <<>>, general_position_limits |-> <<>>,
     offensive_positions |-> {}, defensive_positions |-> {}]

\* a salary range that excludes no lineup
AnySalary == (MaxPlayers + 2) * MaxCost

\* OptimizerSettings(): no rosters, no uniques, no stacks, no combo, no minimum of teams,
\* no anti-correlation
DefaultSettings ==
    [existing_rosters |-> <<>>, uniques |-> 0, stacks |-> <<>>, force_combo |-> FALSE,
     combo_allow_te |-> FALSE, min_teams |-> 0, no_offense_against_defense |-> FALSE,
     no_defense_against_captain |-> FALSE]

NoExposure == [present |-> FALSE, locked |-> {}, banned |-> {}]

NoLineupConstraints == [groups |-> <<>>, locked |-> {}, banned |-> {}]

\* the state before the first Optimizer is built
Fresh ==
    /\ pc = "idle"
    /\ variables = 0
    /\ constraints = <<>>
    /\ status = "NONE"
    /\ solution = <<>>
    /\ result = FALSE
    /\ exc = NoExc
    /\ lineup_constraints = NoLineupConstraints
    /\ exposure = [locked |-> {}, banned |-> {}]

\* sequences over S of length at most n
SeqsUpTo(S, n) == UNION {[1..m -> S] : m \in 0..n}

----------------------------------------------------------------------------
(* Scenario: locks and bans from flags, lineup constraints and exposure,   *)
(* over Optimizers built one after the other on the same records           *)

\* exposure directives: none, or one that locks or bans nobody or player A
Exposures ==
    {NoExposure} \cup
    {[present |-> TRUE, locked |-> l, banned |-> b] :
        <<l, b>> \in {<<{}, {}>>, <<{"A"}, {}>>, <<{}, {"A"}>>}}

\* lineup constraints without groups that lock or ban nobody or player A
LockConstraints ==
    {[groups |-> <<>>, locked |-> l, banned |-> b] :
        <<l, b>> \in {<<{}, {}>>, <<{"A"}, {}>>, <<{}, {"A"}>>}}

LockPlayers ==
    {Player(name, "T1", "T2", "WR", "G", 1, 1, lock, ban, FALSE, FALSE) :
        <<name, lock, ban>> \in Names \X BOOLEAN \X BOOLEAN}

InitLock ==
    /\ players \in Pools(LockPlayers, MaxPlayers)
    /\ rule_set = RuleSet("classic", 1, 0, AnySalary)
    /\ settings = DefaultSettings
    /\ Fresh

NextLock ==
    \/ \E lc \in LockConstraints, ex \in Exposures : Construct(lc, ex)
    \/ \E call \in CaptainCalls \cup {"none"} : Solve(call)

SpecLock == InitLock /\ [][NextLock]_vars

----------------------------------------------------------------------------
(* Scenario: records of one name at several roster slots (multi-position   *)
(* records, showdown captain and utility records), locked or banned        *)

SlotPlayers ==
    {Player(name, "T1", "T2", "WR", "G", 1, 1, flag = "lock", flag = "ban",
            kind = "multi", kind = "captain") :
        <<name, flag, kind>> \in Names \X {"", "lock", "ban"} \X {"single", "multi", "captain"}}

\* classic pools hold single- and multi-position records, showdown pools captain and
\* utility records; records share a name only as the multi-position records of one
\* player or as his captain and his utility record
SlotsOk(ps, game_type) ==
    /\ \A i \in 1..Len(ps) : ps[i].captain => game_type = "showdown"
    /\ \A i \in 1..Len(ps) : ps[i].multi_position => game_type = "classic"
    /\ \A i, j \in 1..Len(ps) :
          (i # j /\ ps[i].name = ps[j].name) =>
              \/ ps[i].multi_position /\ ps[j].multi_position
              \/ ps[i].captain # ps[j].captain

InitSlots ==
    /\ players \in Pools(SlotPlayers, MaxPlayers + 1)
    /\ rule_set \in {RuleSet(gt, rs, 0, AnySalary) :
                        <<gt, rs>> \in {"classic", "showdown"} \X (1..MaxRoster)}
    /\ SlotsOk(players, rule_set.game_type)
    /\ settings = DefaultSettings
    /\ Fresh

\* the scenarios whose Optimizers take no lineup constraints and no exposure
NextPlain ==
    \/ Construct(NoLineupConstraints, NoExposure)
    \/ \E call \in CaptainCalls \cup {"none"} : Solve(call)

SpecSlots == InitSlots /\ [][NextPlain]_vars

----------------------------------------------------------------------------
(* Scenario: salary range and roster size *)

SalaryPlayers ==
    {Player("A", "T1", "T2", "WR", "G", cost, proj, FALSE, FALSE, FALSE, FALSE) :
        <<cost, proj>> \in (0..MaxCost) \X {1, 2}}

InitSalary ==
    /\ players \in NamedPools(SalaryPlayers, MaxPlayers)
    /\ rule_set \in {RuleSet("classic", rs, lo, hi) :
                        <<rs, lo, hi>> \in {<<rs, lo, hi>> \in (1..MaxRoster)
                                                \X (0..MaxSalary) \X (0..MaxSalary) : lo <= hi}}
    /\ settings = DefaultSettings
    /\ Fresh

SpecSalary == InitSalary /\ [][NextPlain]_vars

----------------------------------------------------------------------------
(* Scenario: position limits and general position limits *)

\* a position and its general category
GeneralOf(pos) == IF pos = "SF" THEN "F" ELSE "G"

PositionPlayers ==
    {Player("A", "T1", "T2", pos, GeneralOf(pos), 1, 1, FALSE, FALSE, FALSE, FALSE) :
        pos \in {"PG", "SG", "SF"}}

Limits(keys) ==
    {<<k, lo, hi>> : <<k, lo, hi>> \in {<<k, lo, hi>> \in keys \X (0..MaxLimit) \X (0..MaxLimit) :
                                          lo <= hi}}

\* position limits: none, one tuple, or a tuple for PG followed by one for SF
PositionLimits ==
    SeqsUpTo(Limits({"PG", "SF"}), 1) \cup
    {<<pg, sf>> : <<pg, sf>> \in Limits({"PG"}) \X Limits({"SF"})}

InitPositions ==
    /\ players \in NamedPools(PositionPlayers, MaxPlayers)
    /\ rule_set \in {[RuleSet("classic", rs, 0, AnySalary) EXCEPT
                         !.position_limits = pl, !.general_position_limits = gl] :
                        <<rs, pl, gl>> \in (1..MaxRoster) \X PositionLimits
                                           \X SeqsUpTo(Limits({"G"}), 1)}
    /\ settings = DefaultSettings
    /\ Fresh

SpecPositions == InitPositions /\ [][NextPlain]_vars

----------------------------------------------------------------------------
(* Scenario: existing rosters and uniques *)

RosterPlayers == {Player("A", "T1", "T2", "WR", "G", 1, 1, FALSE, FALSE, FALSE, FALSE)}

\* an existing roster: roster_size solver ids, which the pool may or may not hold
Rosters(size) == {r \in SUBSET (1..(MaxPlayers + 3)) : Cardinality(r) = size}

InitRosters ==
    /\ players \in NamedPools(RosterPlayers, MaxPlayers + 2)
    /\ \E rs \in 1..(MaxRoster + 1) :
          /\ rule_set = RuleSet("classic", rs, 0, AnySalary)
          /\ settings \in {[DefaultSettings EXCEPT !.existing_rosters = er, !.uniques = u] :
                              <<er, u>> \in SeqsUpTo(Rosters(rs), 2) \X (0..MaxUniques)}
    /\ Fresh

SpecRosters == InitRosters /\ [][NextPlain]_vars

----------------------------------------------------------------------------
(* Scenario: teams, offence against defence, classic and showdown *)

Opponent(team) == IF team = "T1" THEN "T2" ELSE "T1"

TeamPlayers ==
    {Player("A", team, Opponent(team), pos, "G", 1, 1, FALSE, FALSE, FALSE, captain) :
        <<team, pos, captain>> \in {"T1", "T2"} \X {"QB", "WR", "DST"} \X BOOLEAN}

InitTeams ==
    /\ players \in NamedPools(TeamPlayers, MaxPlayers)
    /\ rule_set \in {[RuleSet(gt, MaxRoster, 0, AnySalary) EXCEPT
                         !.offensive_positions = off, !.defensive_positions = def] :
                        <<gt, off, def>> \in {"classic", "showdown"}
                                             \X {{}, {"QB", "WR"}} \X {{}, {"DST"}}}
    /\ settings \in {[DefaultSettings EXCEPT
                         !.no_offense_against_defense = c, !.no_defense_against_captain = s,
                         !.min_teams = mt, !.force_combo = fc, !.stacks = st] :
                        <<c, s, mt, fc, st>> \in BOOLEAN \X BOOLEAN \X {0, 2} \X BOOLEAN
                                                 \X {<<>>, <<[team |-> "T1", count |-> 1]>>}}
    /\ Fresh

SpecTeams == InitTeams /\ [][NextPlain]_vars

----------------------------------------------------------------------------
(* Scenario: group constraints *)

GroupPlayers == {Player("A", "T1", "T2", "WR", "G", 1, 1, FALSE, FALSE, FALSE, FALSE)}

\* a group: its players, and an exact count (with the widest lb and ub) or lb and ub
Groups ==
    LET named == {<<"A">>, <<"B">>, <<"A", "B">>, <<"B", "C">>}
    IN {[players |-> ns, hasExact |-> TRUE, exact |-> e, lb |-> 0, ub |-> MaxRoster] :
           <<ns, e>> \in named \X (0..MaxRoster)}
       \cup
       {[players |-> ns, hasExact |-> FALSE, exact |-> 0, lb |-> lo, ub |-> hi] :
           <<ns, lo, hi>> \in {<<ns, lo, hi>> \in named \X (0..MaxRoster) \X (0..MaxRoster) :
                                 lo <= hi}}

GroupConstraints ==
    {[groups |-> gs, locked |-> {}, banned |-> {}] : gs \in SeqsUpTo(Groups, 2)}

InitGroups ==
    /\ players \in NamedPools(GroupPlayers, MaxPlayers + 1)
    /\ rule_set \in {RuleSet("classic", rs, 0, AnySalary) : rs \in 1..MaxRoster}
    /\ settings = DefaultSettings
    /\ Fresh

\* one Optimizer is built, with group constraints
NextGroups ==
    \/ \E lc \in GroupConstraints : pc = "idle" /\ Construct(lc, NoExposure)
    \/ \E call \in CaptainCalls \cup {"none"} : Solve(call)

SpecGroups == InitGroups /\ [][NextGroups]_vars

----------------------------------------------------------------------------
(* Properties *)

\* solve() has returned true
Returned == pc = "solved" /\ result

\* the records of S that the returned lineup selects
Chosen(S) == {i \in S : solution[i] = 1}

\* the lock and the ban of record i as the current Optimizer resolves them
ResolvedLock(i) == _is_locked(lineup_constraints, exposure, players[i])
ResolvedBan(i) == _is_banned(lineup_constraints, exposure, players[i])
Contradictory == {i \in Idx : ResolvedLock(i) /\ ResolvedBan(i)}

\* C1: once an Optimizer has been constructed over a pool in which the resolved lock
\* and the resolved ban of some record both hold, the constructor has failed with
\* PlayerBanAndLockException naming the first such record, no solver constraint exists
\* and no solve has run.
C1_BanAndLockFails ==
    (pc # "idle" /\ Contradictory # {}) =>
        /\ pc = "failed"
        /\ exc.type = "PlayerBanAndLockException"
        /\ \E i \in Contradictory : /\ \A j \in Contradictory : i <= j
                                    /\ exc.name = players[i].name
                                    /\ variables = i
        /\ constraints = <<>>
        /\ status = "NONE"
        /\ solution = <<>>

\* C1 witness: the constructor failed on a record that exposure locks and the lineup
\* constraints ban, after a record without contradiction
C1_Witness ==
    /\ pc = "failed"
    /\ exc.name = "A"
    /\ "A" \in exposure.locked
    /\ "A" \in lineup_constraints.banned
    /\ variables > 1

\* C8: constructing an Optimizer and solving leave every player record as it was.
C8_RecordsUnchanged == [][players' = players]_vars

\* the records of one name that share its bound constraint
SharesBound(i) == players[i].multi_position \/ (showdown /\ players[i].captain)

\* C2: in a returned lineup every locked record is selected (for a record that shares
\* the bound constraint of its name: some record of the name is) and no banned record is.
C2_LocksAndBansHold ==
    Returned =>
        \A i \in Idx :
            /\ players[i].lock =>
                  IF SharesBound(i)
                  THEN \E j \in Idx : players[j].name = players[i].name /\ solution[j] = 1
                  ELSE solution[i] = 1
            /\ players[i].ban => solution[i] = 0

\* the records i and j are two roster slots of one physical player
SamePlayer(i, j) ==
    /\ i # j
    /\ players[i].name = players[j].name
    /\ \/ players[i].multi_position /\ players[j].multi_position
       \/ showdown /\ players[i].captain # players[j].captain

\* C9: the records of one physical player are in one shared bound constraint, and a
\* returned lineup selects at most one of them.
C9_OneBoundPerPlayer ==
    /\ (pc = "solved" \/ (pc = "raised" /\ exc.type = "TypeError")) =>
          \A i, j \in Idx :
              SamePlayer(i, j) =>
                  \E k \in 1..Len(constraints) :
                      /\ constraints[k].family = "player"
                      /\ constraints[k].coef[i] = 1
                      /\ constraints[k].coef[j] = 1
    /\ Returned =>
          \A i, j \in Idx : SamePlayer(i, j) => solution[i] + solution[j] <= 1

\* C6: a lineup returned in showdown mode selects exactly one captain record; in
\* classic mode solve() adds no captain constraint.
C6_ExactlyOneCaptain ==
    /\ (Returned /\ showdown) => Cardinality(Chosen({i \in Idx : players[i].captain})) = 1
    /\ (pc = "solved" /\ ~showdown) =>
          \A k \in 1..Len(constraints) : constraints[k].family # "captain"

\* the cost of the returned lineup
ChosenCost == Dot([i \in Idx |-> players[i].cost], solution, Len(players))

\* C3: the cost of a returned lineup is within [salary_min, salary_max], it selects
\* roster_size players, and solve() returns true only on status OPTIMAL.
C3_SalaryAndSize ==
    /\ Returned =>
          /\ rule_set.salary_min <= ChosenCost
          /\ ChosenCost <= rule_set.salary_max
          /\ Cardinality(Chosen(Idx)) = rule_set.roster_size
    /\ result => (pc = "solved" /\ status = "OPTIMAL")

\* C3 witness: a returned lineup leaves out a player of higher projection whom the
\* salary range, with a positive floor, excludes
C3_Witness ==
    /\ Returned
    /\ rule_set.salary_min > 0
    /\ \E i, j \in Idx : /\ solution[i] = 1 /\ solution[j] = 0
                         /\ players[i].proj < players[j].proj
                         /\ ChosenCost - players[i].cost + players[j].cost > rule_set.salary_max

\* the limits of the sequence limits hold of the returned lineup, key[i] being the
\* position or the category of record i
LimitsHold(limits, key) ==
    \A k \in 1..Len(limits) :
        LET n == Cardinality(Chosen({i \in Idx : key[i] = limits[k][1]}))
        IN limits[k][2] <= n /\ n <= limits[k][3]

\* C4: in a returned lineup, the players of each position of position_limits and of
\* each category of general_position_limits are within the tuple's bounds.
C4_PositionLimits ==
    LET pos == [i \in Idx |-> players[i].pos]
        general == [i \in Idx |-> players[i].nba_general_position]
    IN Returned =>
          /\ LimitsHold(rule_set.position_limits, pos)
          /\ LimitsHold(rule_set.general_position_limits, general)

\* C4 witness: a returned lineup under two position limits and a general limit, the
\* first position limit having a floor of one
C4_Witness ==
    /\ Returned
    /\ Len(rule_set.position_limits) = 2
    /\ Len(rule_set.general_position_limits) = 1
    /\ rule_set.position_limits[1][2] = 1
    /\ rule_set.roster_size = 2

\* the players of roster that the returned lineup selects
Overlap(roster) == Cardinality(Chosen({i \in Idx : players[i].solver_id \in roster}))

\* C5: a returned lineup shares with each existing roster at most
\* max(roster_size - uniques, 1) players when uniques is set and roster_size - 1
\* otherwise, players outside the pool not counting; with uniques below roster_size,
\* at least uniques of its players are not in the roster.
C5_OverlapBound ==
    Returned =>
        \A k \in 1..Len(settings.existing_rosters) :
            LET roster == settings.existing_rosters[k]
            IN /\ Overlap(roster) <= (IF settings.uniques # 0
                                      THEN Max(rule_set.roster_size - settings.uniques, 1)
                                      ELSE rule_set.roster_size - 1)
               /\ (settings.uniques # 0 /\ settings.uniques < rule_set.roster_size) =>
                     Cardinality(Chosen(Idx)) - Overlap(roster) >= settings.uniques

\* C5 witness: with uniques 2 and rosters of 3, a returned lineup shares one player
\* with a roster that also holds a player outside the pool, and two rosters are given
C5_Witness ==
    /\ Returned
    /\ settings.uniques = 2
    /\ rule_set.roster_size = 3
    /\ Len(settings.existing_rosters) = 2
    /\ \E k \in 1..Len(settings.existing_rosters) :
          /\ ~(settings.existing_rosters[k] \subseteq KnownIds)
          /\ Overlap(settings.existing_rosters[k]) = 1

\* the anti-correlation toggle of the current game type
ToggleOn ==
    IF showdown THEN settings.no_defense_against_captain
    ELSE settings.no_offense_against_defense

\* C7: with both position sets non-empty and the toggle of the game type on, no
\* returned lineup holds a defensive player of a team and an offensive player playing
\* against that team (in showdown: a captain record of one); with the toggle off or a
\* position set empty, solve() adds no anti-correlation constraint.
C7_NoOffenseAgainstDefense ==
    /\ (/\ Returned
        /\ ToggleOn
        /\ rule_set.offensive_positions # {}
        /\ rule_set.defensive_positions # {}) =>
          \A p, d \in Idx :
              (/\ players[p].pos \in rule_set.offensive_positions
               /\ players[d].pos \in rule_set.defensive_positions
               /\ is_opposing_team_in_match_up(players[p], players[d].team)
               /\ showdown => players[p].captain) =>
                  solution[p] + solution[d] <= 1
    /\ (/\ pc = "solved"
        /\ \/ ~ToggleOn
           \/ rule_set.offensive_positions = {}
           \/ rule_set.defensive_positions = {}) =>
          \A k \in 1..Len(constraints) : constraints[k].family # "no_opp_defense"

\* the players named in the sequence names
Named(names) == {i \in Idx : \E j \in 1..Len(names) : names[j] = players[i].name}

\* C10: in a returned lineup the number of selected players of each group equals the
\* group's exact count when one is specified, whatever its value, and is within
\* [lb, ub] otherwise.
C10_GroupCounts ==
    Returned =>
        \A g \in 1..Len(lineup_constraints.groups) :
            LET gc == lineup_constraints.groups[g]
                n == Cardinality(Chosen(Named(gc.players)))
            IN IF gc.hasExact THEN n = gc.exact ELSE gc.lb <= n /\ n <= gc.ub

====
